---- MODULE Spec2Model ----
(***************************************************************************)
(* Template instantiation and synchronisation engine of the Focalboard MCP *)
(* server (src/mcp-focalboard-server/server.py).                           *)
(*                                                                         *)
(* The tools are asyncio coroutines: a coroutine runs without interruption *)
(* from one `await _api_request(...)` to the next, so every action below   *)
(* is "an awaited backend request completes (it succeeds or it fails) and  *)
(* the coroutine runs on to its next await or to its return".  Template    *)
(* files are read and written synchronously inside such a step.            *)
(*                                                                         *)
(* Text is a sequence of symbols; "$", "{" and "}" are single symbols and  *)
(* a name such as PROJECT_NAME is one symbol.                              *)
(***************************************************************************)
EXTENDS Integers, Sequences, FiniteSets, TLC

\* ------------------------------------------------------------------ bounds
\* Tool calls started in one behaviour.
MaxCalls == 2
\* Cards the backend holds in the initial state (on the existing board).
MaxInitCards == 1
\* Calls of focalboard_instantiate_template started in one behaviour.
MaxInstantiates == 1
\* Requests and file writes that fail in one behaviour.
MaxFailures == 1

\* Coroutines that can be in flight at once.
Procs == {"c1", "c2"}

\* ------------------------------------------------------------------ helpers
Range(s) == { s[i] : i \in DOMAIN s }

\* The orders in which a finite set can be enumerated.
Perms(S) == { s \in [1..Cardinality(S) -> S] : Range(s) = S }

RECURSIVE Flatten(_)
Flatten(ss) == IF ss = <<>> THEN <<>> ELSE Head(ss) \o Flatten(Tail(ss))

\* ------------------------------------------------------------------ text
\* str.replace(old, new): left-to-right, non-overlapping; old is never empty.
RECURSIVE Replace(_, _, _)
Replace(s, old, new) ==
    IF Len(s) < Len(old) THEN s
    ELSE IF SubSeq(s, 1, Len(old)) = old
         THEN new \o Replace(SubSeq(s, Len(old) + 1, Len(s)), old, new)
         ELSE <<Head(s)>> \o Replace(Tail(s), old, new)

\* f"${{{key}}}"
Token(key) == <<"$", "{", key, "}">>

\* _substitute_variables: variables is a dict, here the sequence of its
\* (key, value) items in insertion order; the replacements are applied one
\* after the other, each to the result of the one before.
RECURSIVE SubstFrom(_, _, _)
SubstFrom(result, variables, i) ==
    IF i > Len(variables) THEN result
    ELSE SubstFrom(Replace(result, Token(variables[i].key), variables[i].value),
                   variables, i + 1)

_substitute_variables(text, variables) ==
    IF variables = <<>> THEN text ELSE SubstFrom(text, variables, 1)

\* dict.setdefault(key, value) on the item sequence.
HasKey(variables, key) == \E i \in DOMAIN variables : variables[i].key = key
SetDefault(variables, key, value) ==
    IF HasKey(variables, key) THEN variables
    ELSE Append(variables, [key |-> key, value |-> value])

\* datetime.now().strftime("%Y-%m-%d")
Today == <<"2026-01-01">>

\* Variant: the defaults are written over the caller's values.
DefaultsOverride(params) ==
    << [key |-> "PROJECT_NAME", value |-> params.project_name],
       [key |-> "CURRENT_DATE", value |-> Today] >>

\* variables = params.variables or {}; setdefault PROJECT_NAME, CURRENT_DATE.
BuildVariables(params) ==
    SetDefault(SetDefault(params.variables, "PROJECT_NAME", params.project_name),
               "CURRENT_DATE", Today)

\* ------------------------------------------------------------------ templates
\* cardProperties of the template documents: select properties with options.
StatusProp ==
    [name |-> "Status", id |-> "prop-status", type |-> "select",
     options |-> << [id |-> "opt-ns", value |-> "Not Started"],
                    [id |-> "opt-ip", value |-> "In Progress"] >>]
PhaseProp ==
    [name |-> "Phase", id |-> "prop-phase", type |-> "select",
     options |-> << [id |-> "opt-p1", value |-> "Phase 1"] >>]

Item(title) == [title |-> title, checked |-> FALSE]
Task(title, status, checklist, content_blocks) ==
    [title |-> title, status |-> status, checklist |-> checklist,
     content_blocks |-> content_blocks]

\* The template documents found on disk in the initial state.  TplQuery is
\* the one-phase, one-task template; TplFull has two phases, a task with a
\* checklist and a content block and a task whose title has a variable.
TplDoc(phases) ==
    [meta      |-> [id |-> "t", version |-> "1.0.0"],
     board     |-> [cardProperties |-> <<StatusProp, PhaseProp>>],
     phases    |-> phases,
     feedback  |-> [pending_proposals |-> <<>>],
     instances |-> [active |-> <<>>]]

TplQuery ==
    TplDoc(<< [number |-> 1, tasks |-> << Task(<<"Query">>, "not-started", <<>>, <<>>) >>] >>)

TplFull ==
    TplDoc(<< [number |-> 1,
               tasks |-> << Task(<<"Query">>, "not-started",
                                 << Item(<<"ask ">> \o Token("PROJECT_NAME")) >>,
                                 << [type |-> "text", content |-> <<"notes">>] >>) >>],
              [number |-> 2,
               tasks |-> << Task(Token("PROJECT_NAME") \o <<" plan">>, "blocked",
                                 <<>>, <<>>) >>] >>)

Templates == {TplQuery, TplFull}

\* ------------------------------------------------------------------ store
\* The template root: the template.json files in the order iterdir() yields
\* their directories, each [category, dir, doc].  TEMPLATE_BASE_DIR /
\* category / dir / "template.json".
NoTemplate == [none |-> TRUE]

\* What a template.json can hold besides a template document: text that
\* json.load rejects (JSONDecodeError); or JSON of another shape - a list
\* (template.get raises AttributeError), a "meta" that is a string
\* (meta.get raises AttributeError), a "phases" that is a number (len and
\* the generator over it raise TypeError).
InvalidJson   == [content |-> "{ not json"]
NotAnObject   == [content |-> "[]"]
MetaNotObject == [content |-> "{\"meta\": \"t\"}"]
PhasesNotList == [content |-> "{\"phases\": 5}"]
Misshaped     == { NotAnObject, MetaNotObject, PhasesNotList }

\* json.load(f) returns: the file is skipped otherwise (except
\* (json.JSONDecodeError, IOError): continue).
Parses(doc) == doc # InvalidJson

\* The summary of the document can be built.
Shaped(doc) == doc \notin Misshaped

\* An exception other than JSONDecodeError and IOError leaves the scan.
DiscoverRaises(st) ==
    \E i \in DOMAIN st : Parses(st[i].doc) /\ ~Shaped(st[i].doc)

\* Variant: the scan stops at the first file that does not parse.
ListedUntilInvalid(st) ==
    LET bad == { i \in DOMAIN st : ~Parses(st[i].doc) }
    IN  IF bad = {} THEN st
        ELSE SubSeq(st, 1, (CHOOSE i \in bad : \A j \in bad : i <= j) - 1)

\* _discover_templates(): one summary per template file that parses, in
\* the order of the scan.
Summary(e) ==
    [id |-> e.doc.meta.id, version |-> e.doc.meta.version,
     category |-> e.category, path |-> <<e.category, e.dir>>]

Listed(st) == SelectSeq(st, LAMBDA e : Parses(e.doc) /\ Shaped(e.doc))

_discover_templates(st) == [i \in DOMAIN Listed(st) |-> Summary(Listed(st)[i])]

\* next((t for t in templates if t["id"] == template_id), None), as an
\* index into the summaries.
FirstWithId(st, template_id) ==
    LET templates == _discover_templates(st)
        hits      == { i \in DOMAIN templates : templates[i].id = template_id }
    IN  IF hits = {} THEN 0
        ELSE CHOOSE i \in hits : \A j \in hits : i <= j

\* Variant: an unknown id falls back to the first template found.
_load_template_or_first(st, template_id) ==
    IF FirstWithId(st, template_id) # 0 THEN Listed(st)[FirstWithId(st, template_id)].doc
    ELSE IF Listed(st) # <<>> THEN Listed(st)[1].doc
    ELSE NoTemplate

\* _load_template(template_id): the document at the path of the first
\* discovered summary with that id.
_load_template(st, template_id) ==
    IF FirstWithId(st, template_id) = 0 THEN NoTemplate
    ELSE Listed(st)[FirstWithId(st, template_id)].doc

\* Index of the file TEMPLATE_BASE_DIR / category / template_id, 0 if none.
FileAt(st, category, dir) ==
    IF \E i \in DOMAIN st : st[i].category = category /\ st[i].dir = dir
    THEN CHOOSE i \in DOMAIN st : st[i].category = category /\ st[i].dir = dir
    ELSE 0

InsertAt(s, k, e) == SubSeq(s, 1, k - 1) \o <<e>> \o SubSeq(s, k, Len(s))

\* _save_template(template, template_id, category): the stores that can
\* result when the file is written.  An existing file is overwritten in
\* place; a new directory appears somewhere in the iteration order.
_save_template(st, template, template_id, category) ==
    IF FileAt(st, category, template_id) # 0
    THEN { [st EXCEPT ![FileAt(st, category, template_id)].doc = template] }
    ELSE { InsertAt(st, k, [category |-> category, dir |-> template_id,
                            doc |-> template]) : k \in 1..(Len(st) + 1) }

\* ------------------------------------------------------------------ state
VARIABLES
    store,    \* the template root (see above)
    boards,   \* backend: board id -> [cardProperties, properties]
    cards,    \* backend: the card blocks, in creation order
    blocks,   \* backend: the other blocks (checkbox, text, divider, view)
    nextId,   \* the next unused id (backend ids and _generate_block_id)
    co,       \* coroutine -> its position, parameters and local variables
    calls,    \* tool calls started so far
    failures,     \* requests and file writes that have failed so far
    instantiates  \* calls of focalboard_instantiate_template started so far

vars == <<store, boards, cards, blocks, nextId, co, calls, failures, instantiates>>

\* Board-level properties of a board no tracking was written to.
NoTracking == [template_id |-> "", template_version |-> "", upgrade_status |-> ""]

NoParams ==
    [template_id |-> "", project_name |-> <<>>, variables |-> <<>>,
     board_id |-> 0, direction |-> "", dry_run |-> TRUE,
     template_version |-> "", upgrade_status |-> "", text |-> <<>>]

\* A coroutine that is not running: the locals of both tools, unset.
Idle ==
    [pc |-> "idle", op |-> "none", call |-> 0, params |-> NoParams,
     template |-> NoTemplate, variables |-> <<>>, board_id |-> 0,
     i |-> 0, cards_created |-> 0, errors |-> <<>>, card_id |-> 0,
     content_order |-> <<>>, content_order_additions |-> <<>>,
     current_order |-> <<>>, view_created |-> FALSE,
     board_titles |-> {}, missing_from_board |-> {}, extra_in_board |-> {},
     created |-> 0, tracking |-> NoTracking, upgrade |-> FALSE,
     templates |-> <<>>, text |-> <<>>, result |-> "none"]

\* Titles of the cards users put on boards.
CardTitles == { <<"Query">>, <<"Extra Task">> }

RECURSIVE SeqsUpTo(_, _)
SeqsUpTo(S, n) ==
    IF n = 0 THEN { <<>> }
    ELSE SeqsUpTo(S, n - 1) \cup
         { Append(q, x) : q \in { r \in SeqsUpTo(S, n - 1) : Len(r) = n - 1 }, x \in S }

\* Directory names a template with meta.id "t" is found under.
TemplateDirs == { "t", "my-template" }

Card(id, board_id, title, properties) ==
    [id |-> id, boardId |-> board_id, title |-> title,
     properties |-> properties, contentOrder |-> <<>>]

\* One template file; one board made by focalboard_create_board (empty
\* cardProperties) holding some cards made by focalboard_create_card.
Init ==
    /\ \E doc \in Templates, dir \in TemplateDirs :
          store = << [category |-> "framework", dir |-> dir, doc |-> doc] >>
    /\ boards = (1 :> [cardProperties |-> <<>>, properties |-> NoTracking])
    /\ \E titles \in SeqsUpTo(CardTitles, MaxInitCards) :
          /\ cards = [k \in DOMAIN titles |-> Card(k + 1, 1, titles[k], {})]
          /\ nextId = Len(titles) + 2
    /\ blocks = <<>>
    /\ co = [p \in Procs |-> Idle]
    /\ calls = 0
    /\ failures = 0
    /\ instantiates = 0

\* ------------------------------------------------------------------ backend
BoardIds == DOMAIN boards

\* POST /boards/{board_id}/cards
PostCard(board_id, id, title, properties) ==
    cards' = Append(cards, Card(id, board_id, title, properties))

\* GET /boards/{board_id}/cards
CardsOf(board_id) == SelectSeq(cards, LAMBDA c : c.boardId = board_id)

\* PATCH /boards/{board_id}/blocks/{card_id} {"updatedFields": {"contentOrder"}}
PatchContentOrder(card_id, order) ==
    cards' = [k \in DOMAIN cards |->
                IF cards[k].id = card_id
                THEN [cards[k] EXCEPT !.contentOrder = order] ELSE cards[k]]

Block(id, board_id, parent_id, type, title, checked, visible) ==
    [id |-> id, boardId |-> board_id, parentId |-> parent_id, type |-> type,
     title |-> title, checked |-> checked, visiblePropertyIds |-> visible]

\* ------------------------------------------------------------------ calls
\* The coroutine object of p becomes l; a call that starts gets the next
\* call number.
Set(p, l) ==
    co' = [co EXCEPT ![p] = IF l.call = 0 THEN [l EXCEPT !.call = calls + 1] ELSE l]

Running(p) == co[p].pc \notin {"idle", "done"}

\* A tool call can be made while the call budget lasts.
CanCall == calls < MaxCalls

\* A request is answered: it fails (timeout, connection or HTTP error, all
\* turned into {"error": ...} by _api_request) or it succeeds.
Answer(ok) ==
    /\ ok \/ failures < MaxFailures
    /\ failures' = failures + (IF ok THEN 0 ELSE 1)

\* A request is answered and then the template file is written.
Answers(ok, io) ==
    LET n == (IF ok THEN 0 ELSE 1) + (IF io \in {"open_fails", "mkdir_fails"} THEN 1 ELSE 0)
    IN  /\ failures + n <= MaxFailures
        /\ failures' = failures + n

\* ------------------------------------------------------------------ instantiate
\* The (phase, task) pairs in the order of `for phase in phases: for task
\* in tasks:`.
TasksOf(template) ==
    Flatten([k \in DOMAIN template.phases |->
               [n \in DOMAIN template.phases[k].tasks |->
                  [phase |-> template.phases[k].number,
                   task  |-> template.phases[k].tasks[n]]]])

\* property_map[name]: the id of the last property of that name, "" if none
\* (property_map.get(name, "")).
property_map(cardProperties, name) ==
    LET hits == { k \in DOMAIN cardProperties : cardProperties[k].name = name }
    IN  IF hits = {} THEN ""
        ELSE cardProperties[CHOOSE k \in hits : \A j \in hits : j <= k].id

\* option_map[name].get(value, ""): name has an entry only when its (last)
\* property has a non-empty options list.
HasOptions(cardProperties, name) ==
    LET hits == { k \in DOMAIN cardProperties :
                    cardProperties[k].name = name /\ cardProperties[k].options # <<>> }
    IN  hits # {}

\* Variant: a value that is no option falls back to the first option.
option_map_or_first(cardProperties, name, value) ==
    LET hits == { k \in DOMAIN cardProperties :
                    cardProperties[k].name = name /\ cardProperties[k].options # <<>> }
        opts == cardProperties[CHOOSE k \in hits : \A j \in hits : j <= k].options
        vals == { k \in DOMAIN opts : opts[k].value = value }
    IN  IF hits = {} THEN ""
        ELSE IF vals = {} THEN opts[1].id
        ELSE opts[CHOOSE k \in vals : \A j \in vals : j <= k].id

option_map(cardProperties, name, value) ==
    LET hits == { k \in DOMAIN cardProperties :
                    cardProperties[k].name = name /\ cardProperties[k].options # <<>> }
        opts == cardProperties[CHOOSE k \in hits : \A j \in hits : j <= k].options
        vals == { k \in DOMAIN opts : opts[k].value = value }
    IN  IF hits = {} \/ vals = {} THEN ""
        ELSE opts[CHOOSE k \in vals : \A j \in vals : j <= k].id

\* status.replace("-", " ").title()
StatusLabel(status) ==
    CASE status = "not-started" -> "Not Started"
      [] status = "in-progress" -> "In Progress"
      [] status = "blocked"     -> "Blocked"
      [] status = "completed"   -> "Completed"
      [] OTHER                  -> status

\* f"Phase {phase_num}"
PhaseLabel(phase_num) ==
    CASE phase_num = 1 -> "Phase 1"
      [] phase_num = 2 -> "Phase 2"
      [] OTHER         -> "Phase ?"

\* card_properties of one task: {property id: option id}, as a set of pairs.
card_properties(cardProperties, phase_num, task) ==
    LET status_option_id == option_map(cardProperties, "Status", StatusLabel(task.status))
        phase_option_id  == option_map(cardProperties, "Phase", PhaseLabel(phase_num))
    IN  (IF /\ property_map(cardProperties, "Status") # ""
            /\ HasOptions(cardProperties, "Status")
            /\ status_option_id # ""
         THEN { <<property_map(cardProperties, "Status"), status_option_id>> } ELSE {})
        \cup
        (IF /\ property_map(cardProperties, "Phase") # ""
            /\ HasOptions(cardProperties, "Phase")
            /\ phase_option_id # ""
         THEN { <<property_map(cardProperties, "Phase"), phase_option_id>> } ELSE {})

\* task_title = _substitute_variables(task.get("title"), variables)
task_title(l, k) == _substitute_variables(TasksOf(l.template)[k].task.title, l.variables)

\* The loop moves on to task k: its card request is sent, or, after the
\* last task, the request that creates the default view.
NextTask(l, k) ==
    IF k <= Len(TasksOf(l.template))
    THEN [l EXCEPT !.pc = "card", !.i = k]
    ELSE [l EXCEPT !.pc = "view", !.i = k]

\* focalboard_instantiate_template up to the request that creates the board.
StartInstantiate(p, params) ==
    /\ ~Running(p)
    /\ CanCall
    /\ instantiates < MaxInstantiates
    /\ instantiates' = instantiates + 1
    /\ calls' = calls + 1
    /\ LET template == _load_template(store, params.template_id)
       IN  IF template = NoTemplate
           THEN Set(p, [Idle EXCEPT !.pc = "done", !.op = "instantiate",
                                    !.params = params, !.result = "not_found"])
           ELSE Set(p, [Idle EXCEPT !.pc = "board", !.op = "instantiate",
                                    !.params = params, !.template = template,
                                    !.variables = BuildVariables(params)])
    /\ UNCHANGED <<store, boards, cards, blocks, nextId, failures>>

\* Variant: the error answer to POST /boards is not returned on; the id is
\* then board_result.get("id", "unknown"), a board that does not exist.
BoardFailedGoesOn(l) == NextTask([l EXCEPT !.board_id = 0], 1)

\* What follows an error answer to POST /boards.
BoardFailed(l) == [l EXCEPT !.pc = "done", !.result = "board_error"]

\* An id the backend gives a property or an option in place of the id it
\* was sent.
ServerId(id) ==
    CASE id = "prop-status" -> "srv-prop-status"
      [] id = "prop-phase"  -> "srv-prop-phase"
      [] id = "opt-ns"      -> "srv-opt-ns"
      [] id = "opt-ip"      -> "srv-opt-ip"
      [] id = "opt-p1"      -> "srv-opt-p1"
      [] OTHER              -> "srv-id"

Reidentified(cardProperties) ==
    [k \in DOMAIN cardProperties |->
       [cardProperties[k] EXCEPT
          !.id = ServerId(@),
          !.options = [n \in DOMAIN @ |-> [@[n] EXCEPT !.id = ServerId(@)]]]]

\* POST /boards answers; on success the loop over the tasks starts.  The
\* backend stores the cardProperties of board_data as they were sent.
InstBoard(p, ok) ==
    /\ Answer(ok)
    /\ co[p].pc = "board"
    /\ IF ok
       THEN /\ boards' = boards @@
                 (nextId :> [cardProperties |-> co[p].template.board.cardProperties,
                             properties |-> NoTracking])
            /\ nextId' = nextId + 1
            /\ Set(p, NextTask([co[p] EXCEPT !.board_id = nextId], 1))
       ELSE /\ Set(p, BoardFailed(co[p]))
            /\ UNCHANGED <<boards, nextId>>
    /\ UNCHANGED <<store, cards, blocks, calls, instantiates>>

\* POST /boards succeeds on a backend that stores the schema under ids of
\* its own.  The answer is board_result; the code reads only its "id".
InstBoardResolved(p) ==
    /\ Answer(TRUE)
    /\ co[p].pc = "board"
    /\ boards' = boards @@
          (nextId :> [cardProperties |-> Reidentified(co[p].template.board.cardProperties),
                      properties |-> NoTracking])
    /\ nextId' = nextId + 1
    /\ Set(p, NextTask([co[p] EXCEPT !.board_id = nextId], 1))
    /\ UNCHANGED <<store, cards, blocks, calls, instantiates>>

\* Ids k+1 .. k+n: n calls of _generate_block_id.
NewIds(k, n) == [j \in 1..n |-> k + j]

\* The backend accepts a request on a board only if the board exists.
Accepts(board_id, ok) == ok /\ board_id \in BoardIds

\* Variant: a failed card request ends the loop (break for continue).
CardFailedBreaks(l) ==
    [l EXCEPT !.errors = Append(l.errors, task_title(l, l.i)), !.pc = "view"]

\* After a failed card request: errors.append(...); continue.
CardFailed(l) ==
    NextTask([l EXCEPT !.errors = Append(l.errors, task_title(l, l.i))], l.i + 1)

\* POST /boards/{board_id}/cards answers for task i.  On success the
\* checklist blocks (else the content blocks) of the task are built and
\* their request is sent; a task with neither is finished.
InstCard(p, ok) ==
    /\ Answer(ok)
    /\ co[p].pc = "card"
    /\ LET l    == co[p]
           t    == TasksOf(l.template)[l.i]
           task == t.task
           done == [l EXCEPT !.card_id = nextId, !.cards_created = l.cards_created + 1,
                             !.content_order = <<>>, !.content_order_additions = <<>>]
       IN  IF Accepts(l.board_id, ok)
           THEN /\ PostCard(l.board_id, nextId, task_title(l, l.i),
                            card_properties(l.template.board.cardProperties, t.phase, task))
                /\ IF task.checklist # <<>>
                   THEN /\ Set(p, [done EXCEPT !.pc = "chk_post",
                                     !.content_order = NewIds(nextId, Len(task.checklist))])
                        /\ nextId' = nextId + 1 + Len(task.checklist)
                   ELSE IF task.content_blocks # <<>>
                   THEN /\ Set(p, [done EXCEPT !.pc = "cb_post",
                                     !.content_order_additions =
                                         NewIds(nextId, Len(task.content_blocks))])
                        /\ nextId' = nextId + 1 + Len(task.content_blocks)
                   ELSE /\ Set(p, NextTask(done, l.i + 1))
                        /\ nextId' = nextId + 1
           ELSE /\ Set(p, CardFailed(l))
                /\ UNCHANGED <<cards, nextId>>
    /\ UNCHANGED <<store, boards, blocks, calls, instantiates>>

\* new_blocks of the checklist: one checkbox per item.
ChecklistBlocks(l) ==
    LET task == TasksOf(l.template)[l.i].task
    IN  [k \in DOMAIN task.checklist |->
           Block(l.content_order[k], l.board_id, l.card_id, "checkbox",
                 _substitute_variables(task.checklist[k].title, l.variables),
                 task.checklist[k].checked, <<>>)]

\* new_blocks of the content blocks: a divider, or else a text block.
ContentBlocks(l) ==
    LET task == TasksOf(l.template)[l.i].task
    IN  [k \in DOMAIN task.content_blocks |->
           IF task.content_blocks[k].type = "divider"
           THEN Block(l.content_order_additions[k], l.board_id, l.card_id,
                      "divider", <<>>, FALSE, <<>>)
           ELSE Block(l.content_order_additions[k], l.board_id, l.card_id, "text",
                      _substitute_variables(task.content_blocks[k].content, l.variables),
                      FALSE, <<>>)]

\* POST /boards/{board_id}/blocks with the checkboxes answers; the answer
\* is not looked at and the content-order update is sent.
InstChkPost(p, ok) ==
    /\ Answer(ok)
    /\ co[p].pc = "chk_post"
    /\ IF Accepts(co[p].board_id, ok)
       THEN blocks' = blocks \o ChecklistBlocks(co[p])
       ELSE UNCHANGED blocks
    /\ Set(p, [co[p] EXCEPT !.pc = "chk_patch"])
    /\ UNCHANGED <<store, boards, cards, nextId, calls, instantiates>>

\* PATCH of the card's contentOrder answers (not looked at); then the
\* content blocks, if any, are built and sent.
InstChkPatch(p, ok) ==
    /\ Answer(ok)
    /\ co[p].pc = "chk_patch"
    /\ LET l    == co[p]
           task == TasksOf(l.template)[l.i].task
       IN  /\ IF Accepts(l.board_id, ok)
              THEN PatchContentOrder(l.card_id, l.content_order)
              ELSE UNCHANGED cards
           /\ IF task.content_blocks # <<>>
              THEN /\ Set(p, [l EXCEPT !.pc = "cb_post",
                                !.content_order_additions =
                                    NewIds(nextId - 1, Len(task.content_blocks))])
                   /\ nextId' = nextId + Len(task.content_blocks)
              ELSE /\ Set(p, NextTask(l, l.i + 1))
                   /\ UNCHANGED nextId
    /\ UNCHANGED <<store, boards, blocks, calls, instantiates>>

\* POST of the content blocks answers (not looked at); the cards are read.
InstCbPost(p, ok) ==
    /\ Answer(ok)
    /\ co[p].pc = "cb_post"
    /\ IF Accepts(co[p].board_id, ok)
       THEN blocks' = blocks \o ContentBlocks(co[p])
       ELSE UNCHANGED blocks
    /\ Set(p, [co[p] EXCEPT !.pc = "cb_get"])
    /\ UNCHANGED <<store, boards, cards, nextId, calls, instantiates>>

\* GET /boards/{board_id}/blocks?type=card answers: with a list holding the
\* card, its contentOrder extended by the additions is sent; otherwise the
\* task is finished.
InstCbGet(p, ok) ==
    /\ Answer(ok)
    /\ co[p].pc = "cb_get"
    /\ LET l    == co[p]
           mine == SelectSeq(CardsOf(l.board_id), LAMBDA c : c.id = l.card_id)
       IN  IF Accepts(l.board_id, ok) /\ mine # <<>>
           THEN Set(p, [l EXCEPT !.pc = "cb_patch",
                          !.current_order = mine[1].contentOrder \o l.content_order_additions])
           ELSE Set(p, NextTask(l, l.i + 1))
    /\ UNCHANGED <<store, boards, cards, blocks, nextId, calls, instantiates>>

\* PATCH of the extended contentOrder answers (not looked at).
InstCbPatch(p, ok) ==
    /\ Answer(ok)
    /\ co[p].pc = "cb_patch"
    /\ IF Accepts(co[p].board_id, ok)
       THEN PatchContentOrder(co[p].card_id, co[p].current_order)
       ELSE UNCHANGED cards
    /\ Set(p, NextTask(co[p], co[p].i + 1))
    /\ UNCHANGED <<store, boards, blocks, nextId, calls, instantiates>>

\* ------------------------------------------------------------------ saving
\* How a write of the template file can end: the file is written; open()
\* raises IOError, which _save_template catches; or, when the directory
\* TEMPLATE_BASE_DIR / category / template_id does not exist yet, mkdir()
\* raises, which nothing catches.
SaveOutcomes(st, template_id) ==
    LET k == FirstWithId(st, template_id)
    IN  IF k = 0 THEN { "no_template_info" }
        ELSE { "written", "open_fails" } \cup
             (IF FileAt(st, _discover_templates(st)[k].category, template_id) = 0
              THEN { "mkdir_fails" } ELSE {})

\* templates = _discover_templates(); template_info = next(...);
\* if template_info: _save_template(template, template_id, category)
SaveTemplate(template, template_id, io) ==
    IF io = "written"
    THEN store' \in _save_template(store, template, template_id,
                     _discover_templates(store)[FirstWithId(store, template_id)].category)
    ELSE UNCHANGED store

\* The InstanceRecord of a new board.
InstanceRecord(l) ==
    [board_id |-> l.board_id, project_name |-> l.params.project_name,
     template_version |-> l.template.meta.version,
     current_version |-> l.template.meta.version,
     upgrade_status |-> "current"]

\* template["instances"]["active"].append(...)
WithInstance(l) ==
    [l.template EXCEPT !.instances.active = Append(@, InstanceRecord(l))]

\* Variant: every property of the schema is made visible.
VisibleIdsAll(cardProperties) ==
    [k \in DOMAIN cardProperties |-> cardProperties[k].id]

\* visiblePropertyIds of the default view.
VisibleIds(cardProperties) ==
    IF property_map(cardProperties, "Status") # ""
    THEN << property_map(cardProperties, "Status") >> ELSE <<>>

\* POST of the default view answers; the instance record is appended to
\* the loaded document, the document is saved and the tool returns.
InstView(p, ok, io) ==
    /\ co[p].pc = "view"
    /\ io \in SaveOutcomes(store, co[p].params.template_id)
    /\ Answers(ok, io)
    /\ LET l == co[p]
       IN  /\ IF Accepts(l.board_id, ok)
              THEN blocks' = Append(blocks,
                       Block(nextId, l.board_id, l.board_id, "view", <<"Task Overview">>,
                             FALSE, VisibleIds(l.template.board.cardProperties)))
              ELSE UNCHANGED blocks
           /\ nextId' = nextId + 1
           /\ SaveTemplate(WithInstance(l), l.params.template_id, io)
           /\ Set(p, [l EXCEPT !.pc = "done", !.template = WithInstance(l),
                               !.view_created = Accepts(l.board_id, ok),
                               !.result = IF io = "mkdir_fails" THEN "exception"
                                          ELSE "created"])
    /\ UNCHANGED <<boards, cards, calls, instantiates>>

\* ------------------------------------------------------------------ sync
\* template_titles = {t["title"] for t in template_tasks}
template_titles(template) ==
    { TasksOf(template)[k].task.title : k \in DOMAIN TasksOf(template) }

\* board_titles = {c["title"] for c in board_cards}
board_titles(board_cards) == { board_cards[k].title : k \in DOMAIN board_cards }

\* Variant: the titles on the board are not taken off.
missing_ignoring_board(tt, bt) == tt

\* missing_from_board = template_titles - board_titles
missing_from_board(tt, bt) == tt \ bt

\* Variant: the operands of the difference are exchanged.
extra_operands_swapped(tt, bt) == tt \ bt

\* extra_in_board = board_titles - template_titles
extra_in_board(tt, bt) == bt \ tt

\* focalboard_sync_template up to the request that reads the board.
StartSync(p, params) ==
    /\ ~Running(p)
    /\ CanCall
    /\ calls' = calls + 1
    /\ LET template == _load_template(store, params.template_id)
       IN  IF template = NoTemplate
           THEN Set(p, [Idle EXCEPT !.pc = "done", !.op = "sync",
                                    !.params = params, !.result = "not_found"])
           ELSE Set(p, [Idle EXCEPT !.pc = "get_board", !.op = "sync",
                                    !.params = params, !.template = template])
    /\ UNCHANGED <<store, boards, cards, blocks, nextId, failures, instantiates>>

\* GET /boards/{board_id} answers.
SyncGetBoard(p, ok) ==
    /\ Answer(ok)
    /\ co[p].pc = "get_board"
    /\ IF Accepts(co[p].params.board_id, ok)
       THEN Set(p, [co[p] EXCEPT !.pc = "get_cards"])
       ELSE Set(p, [co[p] EXCEPT !.pc = "done", !.result = "error"])
    /\ UNCHANGED <<store, boards, cards, blocks, nextId, calls, instantiates>>

\* The first task at or after position k whose title is missing, or one
\* past the last task: `for task in template_tasks: if task["title"] in
\* missing_from_board`.
NextMissing(l, k) ==
    LET tasks == TasksOf(l.template)
        rest  == { j \in k..Len(tasks) : tasks[j].task.title \in l.missing_from_board }
    IN  IF rest = {} THEN Len(tasks) + 1
        ELSE CHOOSE j \in rest : \A m \in rest : j <= m

\* The loop of template_to_board at task k: its card request is sent, or
\* the tool returns.
NextCreate(l, k) ==
    IF NextMissing(l, k) <= Len(TasksOf(l.template))
    THEN [l EXCEPT !.pc = "create", !.i = NextMissing(l, k)]
    ELSE [l EXCEPT !.pc = "done", !.result = "synced"]

\* Variant: the list is read from the file again when the proposals are
\* appended.
pending_proposals_reread(l) ==
    _load_template(store, l.params.template_id).feedback.pending_proposals

\* feedback = template.get("feedback", {...}): the list the proposals are
\* appended to is the one loaded when the call started.
pending_proposals(l) == l.template.feedback.pending_proposals

\* One FeedbackProposal per title, in the iteration order of the set.
Proposal(id, title, board_id) ==
    [id |-> id, type |-> "add_task", change |-> [title |-> title],
     source |-> board_id, votes |-> [approve |-> <<>>, reject |-> <<>>],
     status |-> "pending"]

NewProposals(order, board_id) ==
    [k \in DOMAIN order |-> Proposal(nextId + k - 1, order[k], board_id)]

\* Variant: the proposed tasks are also put into the last phase.
WithTasksAdded(l, new) ==
    [l.template EXCEPT
        !.feedback.pending_proposals = pending_proposals(l) \o new,
        !.phases[Len(l.template.phases)].tasks =
            @ \o [k \in DOMAIN new |-> Task(new[k].change.title, "not-started", <<>>, <<>>)]]

\* template["feedback"] = feedback: the loaded document with the new
\* proposals at the end of its pending list, nothing else touched.
WithProposals(l, new) ==
    [l.template EXCEPT !.feedback.pending_proposals = pending_proposals(l) \o new]

\* Variant: the mutating branch is entered whatever dry_run says.
AppliesAlways(params) == TRUE

\* Whether the mutating branch is entered.
Applies(params) == ~params.dry_run

\* GET /boards/{board_id}/cards answers; the difference is computed and,
\* by direction: the first missing card is requested; or the proposals are
\* appended and the template saved; or the tool returns its report.
SyncGetCards(p, ok) ==
    /\ co[p].pc = "get_cards"
    /\ LET l0 == co[p]
           bt == board_titles(CardsOf(l0.params.board_id))
           tt == template_titles(l0.template)
           l  == [l0 EXCEPT !.board_titles = bt,
                            !.missing_from_board = missing_from_board(tt, bt),
                            !.extra_in_board = extra_in_board(tt, bt)]
       IN  IF ~Accepts(l0.params.board_id, ok)
           THEN /\ Set(p, [l0 EXCEPT !.pc = "done", !.result = "error"])
                /\ Answer(ok)
                /\ UNCHANGED <<store, nextId>>
           ELSE IF l.params.direction = "template_to_board" /\ l.missing_from_board # {}
           THEN /\ IF Applies(l.params)
                   THEN Set(p, NextCreate(l, 1))
                   ELSE Set(p, [l EXCEPT !.pc = "done", !.result = "report"])
                /\ Answer(ok)
                /\ UNCHANGED <<store, nextId>>
           ELSE IF l.params.direction = "board_to_template" /\ l.extra_in_board # {}
           THEN IF Applies(l.params)
                THEN \E order \in Perms(l.extra_in_board),
                        io \in SaveOutcomes(store, l.params.template_id) :
                        LET template ==
                              WithProposals(l, NewProposals(order, l.params.board_id))
                        IN  /\ Answers(ok, io)
                            /\ SaveTemplate(template, l.params.template_id, io)
                            /\ nextId' = nextId + Len(order)
                            /\ Set(p, [l EXCEPT !.pc = "done", !.template = template,
                                         !.result = IF io = "mkdir_fails"
                                                    THEN "exception" ELSE "proposed"])
                ELSE /\ Set(p, [l EXCEPT !.pc = "done", !.result = "report"])
                     /\ Answer(ok)
                     /\ UNCHANGED <<store, nextId>>
           ELSE /\ Set(p, [l EXCEPT !.pc = "done", !.result = "report"])
                /\ Answer(ok)
                /\ UNCHANGED <<store, nextId>>
    /\ UNCHANGED <<boards, cards, blocks, calls, instantiates>>

\* POST /boards/{board_id}/cards answers for the missing task i.
SyncCreate(p, ok) ==
    /\ Answer(ok)
    /\ co[p].pc = "create"
    /\ LET l == co[p]
       IN  IF Accepts(l.params.board_id, ok)
           THEN /\ PostCard(l.params.board_id, nextId,
                            TasksOf(l.template)[l.i].task.title, {})
                /\ nextId' = nextId + 1
                /\ Set(p, NextCreate([l EXCEPT !.created = l.created + 1], l.i + 1))
           ELSE /\ Set(p, NextCreate(l, l.i + 1))
                /\ UNCHANGED <<cards, nextId>>
    /\ UNCHANGED <<store, boards, blocks, calls, instantiates>>

\* ------------------------------------------------------------------ other tools
\* focalboard_create_card: one request, one card.
CreateCard(board_id, title, ok) ==
    /\ Answer(ok)
    /\ CanCall
    /\ calls' = calls + 1
    /\ IF Accepts(board_id, ok)
       THEN PostCard(board_id, nextId, title, {}) /\ nextId' = nextId + 1
       ELSE UNCHANGED <<cards, nextId>>
    /\ UNCHANGED <<store, boards, blocks, co, instantiates>>

\* ------------------------------------------------------------------ tracking
\* The three board-level properties, as read: properties.get(KEY, "").
TrackingOf(board_id) == boards[board_id].properties

\* Variant: the version is left out of the PATCH.
update_data_without_version(params) ==
    [template_id      |-> params.template_id,
     template_version |-> "",
     upgrade_status   |-> params.upgrade_status]

\* update_data["updatedProperties"]: the values the PATCH carries.
update_data(params) ==
    [template_id      |-> params.template_id,
     template_version |-> params.template_version,
     upgrade_status   |-> params.upgrade_status]

\* focalboard_set_board_tracking: PATCH /boards/{board_id} answers.
SetTracking(p, params, ok) ==
    /\ ~Running(p)
    /\ CanCall
    /\ calls' = calls + 1
    /\ Answer(ok)
    /\ IF Accepts(params.board_id, ok)
       THEN /\ boards' = [boards EXCEPT ![params.board_id].properties = update_data(params)]
            /\ Set(p, [Idle EXCEPT !.pc = "done", !.op = "set_tracking",
                                   !.params = params, !.result = "tracking_set"])
       ELSE /\ UNCHANGED boards
            /\ Set(p, [Idle EXCEPT !.pc = "done", !.op = "set_tracking",
                                   !.params = params, !.result = "error"])
    /\ UNCHANGED <<store, cards, blocks, nextId, instantiates>>

\* Variant: every board reads as tracked.
TrackedAlways(properties) == TRUE

\* if not template_id: the board is not tracked by a template.
Tracked(properties) == properties.template_id # ""

\* The upgrade notice: the template loads and its meta.version is not the
\* version stored on the board.
UpgradeAvailable(properties) ==
    LET template == _load_template(store, properties.template_id)
    IN  template # NoTemplate /\ template.meta.version # properties.template_version

\* Variant: an upgrade that is noticed is written to the board.
TrackingPushed(board_id, upgrade) ==
    boards' = IF upgrade
              THEN [boards EXCEPT ![board_id].properties.upgrade_status = "available"]
              ELSE boards

\* What reading the tracking does to the boards: nothing.
TrackingKept(board_id, upgrade) == UNCHANGED boards

\* focalboard_get_board_tracking: GET /boards/{board_id} answers.
GetTracking(p, params, ok) ==
    /\ ~Running(p)
    /\ CanCall
    /\ calls' = calls + 1
    /\ Answer(ok)
    /\ LET l == [Idle EXCEPT !.pc = "done", !.op = "get_tracking", !.params = params]
       IN  IF ~Accepts(params.board_id, ok)
           THEN Set(p, [l EXCEPT !.result = "error"]) /\ UNCHANGED boards
           ELSE IF ~Tracked(TrackingOf(params.board_id))
           THEN Set(p, [l EXCEPT !.result = "untracked"]) /\ UNCHANGED boards
           ELSE /\ Set(p, [l EXCEPT !.result = "tracked",
                             !.tracking = TrackingOf(params.board_id),
                             !.upgrade = UpgradeAvailable(TrackingOf(params.board_id))])
                /\ TrackingKept(params.board_id,
                                UpgradeAvailable(TrackingOf(params.board_id)))
    /\ UNCHANGED <<store, cards, blocks, nextId, instantiates>>

\* ------------------------------------------------------------------ behaviours
TemplateIds == { "t", "unknown-template" }
ProjectNames == { <<"Acme">> }
VariableMaps == { <<>>, << [key |-> "PROJECT_NAME", value |-> <<"Zeta">>] >> }
Directions == { "template_to_board", "board_to_template" }

InstantiateParams ==
    { [NoParams EXCEPT !.template_id = t, !.project_name = n, !.variables = v] :
        t \in TemplateIds, n \in ProjectNames, v \in VariableMaps }

SyncParams ==
    { [NoParams EXCEPT !.template_id = t, !.board_id = b, !.direction = d, !.dry_run = r] :
        t \in TemplateIds, b \in BoardIds, d \in Directions, r \in BOOLEAN }

Versions == { "1.0.0", "0.9.0" }
Statuses == { "current" }

SetTrackingParams ==
    { [NoParams EXCEPT !.board_id = b, !.template_id = t,
                       !.template_version = v, !.upgrade_status = u] :
        b \in BoardIds, t \in TemplateIds, v \in Versions, u \in Statuses }

GetTrackingParams == { [NoParams EXCEPT !.board_id = b] : b \in BoardIds }

Step(p) ==
    \/ \E ok \in BOOLEAN : InstBoard(p, ok)
    \/ \E ok \in BOOLEAN : InstCard(p, ok)
    \/ \E ok \in BOOLEAN : InstChkPost(p, ok)
    \/ \E ok \in BOOLEAN : InstChkPatch(p, ok)
    \/ \E ok \in BOOLEAN : InstCbPost(p, ok)
    \/ \E ok \in BOOLEAN : InstCbGet(p, ok)
    \/ \E ok \in BOOLEAN : InstCbPatch(p, ok)
    \/ \E ok \in BOOLEAN, io \in {"written", "open_fails", "mkdir_fails", "no_template_info"} :
          InstView(p, ok, io)
    \/ \E ok \in BOOLEAN : SyncGetBoard(p, ok)
    \/ \E ok \in BOOLEAN : SyncGetCards(p, ok)
    \/ \E ok \in BOOLEAN : SyncCreate(p, ok)

Call(p) ==
    \/ \E params \in InstantiateParams : StartInstantiate(p, params)
    \/ \E params \in SyncParams : StartSync(p, params)
    \/ \E params \in SetTrackingParams, ok \in BOOLEAN : SetTracking(p, params, ok)
    \/ \E params \in GetTrackingParams, ok \in BOOLEAN : GetTracking(p, params, ok)

\* Any number of calls in flight, interleaved at their awaits.
Next ==
    \/ \E p \in Procs : Call(p)
    \/ \E p \in Procs : Step(p)
    \/ \E b \in BoardIds, title \in CardTitles, ok \in BOOLEAN : CreateCard(b, title, ok)

Spec == Init /\ [][Next]_vars

\* One call at a time: a call is made only when no other is in flight.
NoneRunning == \A p \in Procs : ~Running(p)

SeqNext ==
    \/ \E p \in Procs : NoneRunning /\ Call(p)
    \/ \E p \in Procs : Step(p)
    \/ \E b \in BoardIds, title \in CardTitles, ok \in BOOLEAN :
          NoneRunning /\ CreateCard(b, title, ok)

SeqSpec == Init /\ [][SeqNext]_vars

\* Property schemas of templates: Status and Phase; no Status property; a
\* Status property without options.
Schemas ==
    { <<StatusProp, PhaseProp>>, <<PhaseProp>>, << [StatusProp EXCEPT !.options = <<>>] >> }

\* One call at a time on the two-phase template under each of the schemas.
SchemaInit ==
    /\ \E schema \in Schemas :
          store = << [category |-> "framework", dir |-> "t",
                      doc |-> [TplFull EXCEPT !.board.cardProperties = schema]] >>
    /\ boards = (1 :> [cardProperties |-> <<>>, properties |-> NoTracking])
    /\ \E titles \in SeqsUpTo(CardTitles, MaxInitCards) :
          /\ cards = [k \in DOMAIN titles |-> Card(k + 1, 1, titles[k], {})]
          /\ nextId = Len(titles) + 2
    /\ blocks = <<>>
    /\ co = [p \in Procs |-> Idle]
    /\ calls = 0
    /\ failures = 0
    /\ instantiates = 0

\* The calls of SeqNext, against a backend that may also answer POST /boards
\* with ids of its own.
SchemaNext ==
    \/ SeqNext
    \/ \E p \in Procs : InstBoardResolved(p)

SchemaSpec == SchemaInit /\ [][SchemaNext]_vars

\* The tracking tools alone, setTracking called with any upgrade_status a
\* caller can pass: the field is a str with a default and no pattern.
AnyStatuses == { "current", "available", "skipped", "stale" }

AnyTrackingParams ==
    { [NoParams EXCEPT !.board_id = b, !.template_id = "t",
                       !.template_version = v, !.upgrade_status = u] :
        b \in BoardIds, v \in Versions, u \in AnyStatuses }

TrackingNext ==
    \/ \E p \in Procs, params \in AnyTrackingParams, ok \in BOOLEAN :
          SetTracking(p, params, ok)
    \/ \E p \in Procs, params \in GetTrackingParams, ok \in BOOLEAN :
          GetTracking(p, params, ok)

TrackingSpec == Init /\ [][TrackingNext]_vars

\* ------------------------------------------------------------------ helpers as tools
\* focalboard_list_templates: the summaries, or the exception that left
\* the scan.
ListTemplates(p) ==
    /\ ~Running(p)
    /\ CanCall
    /\ calls' = calls + 1
    /\ IF DiscoverRaises(store)
       THEN Set(p, [Idle EXCEPT !.pc = "done", !.op = "list_templates",
                                !.result = "exception"])
       ELSE Set(p, [Idle EXCEPT !.pc = "done", !.op = "list_templates",
                                !.templates = _discover_templates(store),
                                !.result = "listed"])
    /\ UNCHANGED <<store, boards, cards, blocks, nextId, failures, instantiates>>

\* focalboard_get_template: the document, or not found, or the exception.
GetTemplate(p, template_id) ==
    /\ ~Running(p)
    /\ CanCall
    /\ calls' = calls + 1
    /\ LET l == [Idle EXCEPT !.pc = "done", !.op = "get_template",
                             !.params = [NoParams EXCEPT !.template_id = template_id]]
       IN  IF DiscoverRaises(store)
           THEN Set(p, [l EXCEPT !.result = "exception"])
           ELSE IF _load_template(store, template_id) = NoTemplate
           THEN Set(p, [l EXCEPT !.result = "not_found"])
           ELSE Set(p, [l EXCEPT !.result = "found",
                                 !.template = _load_template(store, template_id)])
    /\ UNCHANGED <<store, boards, cards, blocks, nextId, failures, instantiates>>

\* _substitute_variables applied to a text and a map.
Substitute(p, text, variables) ==
    /\ ~Running(p)
    /\ CanCall
    /\ calls' = calls + 1
    /\ Set(p, [Idle EXCEPT !.pc = "done", !.op = "substitute",
                           !.params = [NoParams EXCEPT !.text = text,
                                                       !.variables = variables],
                           !.text = _substitute_variables(text, variables),
                           !.result = "text"])
    /\ UNCHANGED <<store, boards, cards, blocks, nextId, failures, instantiates>>

\* Template roots: up to MaxFiles files in one category, the k-th in the
\* directory RootDirs[k], each a template or something else.
MaxFiles == 3
RootDirs == <<"t", "u", "v", "w">>
Renamed(doc, id) == [doc EXCEPT !.meta.id = id]
Contents ==
    { TplQuery, Renamed(TplQuery, "u"), InvalidJson,
      NotAnObject, MetaNotObject, PhasesNotList }

Roots ==
    { [k \in DOMAIN docs |->
         [category |-> "framework", dir |-> RootDirs[k], doc |-> docs[k]]] :
      docs \in SeqsUpTo(Contents, MaxFiles) }

\* Texts and maps for substitution; a map is its items in insertion order.
Texts ==
    { <<>>, <<"plain">>, Token("A"), Token("A") \o <<" board">>,
      Token("MISSING"), <<"$", "{", "A">>,
      Token("A") \o <<" and ">> \o Token("B"),
      Token("B") \o Token("A") \o Token("A") }
Values == { <<"X">>, <<>>, Token("B"), Token("A") }
Maps ==
    { <<>> } \cup
    { << [key |-> "A", value |-> a] >> : a \in Values } \cup
    { << [key |-> k[1], value |-> a], [key |-> k[2], value |-> b] >> :
        k \in { <<"A", "B">>, <<"B", "A">> }, a \in Values, b \in Values }

HelperInit ==
    /\ store \in Roots
    /\ boards = (1 :> [cardProperties |-> <<>>, properties |-> NoTracking])
    /\ cards = <<>>
    /\ blocks = <<>>
    /\ nextId = 2
    /\ co = [p \in Procs |-> Idle]
    /\ calls = 0
    /\ failures = 0
    /\ instantiates = 0

\* One helper is applied to the root and the inputs drawn.
NoneCalled == \A p \in Procs : co[p].pc = "idle"

HelperNext ==
    \/ \E p \in Procs : NoneCalled /\ ListTemplates(p)
    \/ \E p \in Procs, template_id \in TemplateIds \cup {"u"} :
          NoneCalled /\ GetTemplate(p, template_id)
    \/ \E p \in Procs, text \in Texts, variables \in Maps :
          NoneCalled /\ Substitute(p, text, variables)

HelperSpec == HelperInit /\ [][HelperNext]_vars

\* ------------------------------------------------------------------ claims
InstDone(p) == co[p].op = "instantiate" /\ co[p].pc = "done"
SyncDone(p) == co[p].op = "sync" /\ co[p].pc = "done"

\* Tasks whose card request has been answered.
Answered(l) ==
    CASE l.pc = "card"             -> l.i - 1
      [] l.pc \in {"view", "done"} -> Len(TasksOf(l.template))
      [] OTHER                     -> l.i

\* C1: once the board exists, every task of the template gets its card
\* request whatever the earlier answers were: at every point of the loop the
\* cards created plus the errors recorded number the tasks gone through,
\* and at the return they number all the tasks of the template.
C1_BatchCompletes ==
    \A p \in Procs :
        (co[p].op = "instantiate" /\ co[p].pc \notin {"idle", "board"}
           /\ co[p].result \notin {"not_found", "board_error"})
        => /\ co[p].cards_created + Len(co[p].errors) = Answered(co[p])
           /\ co[p].pc \in {"view", "done"} => co[p].i = Len(TasksOf(co[p].template)) + 1

\* A run in which the first card failed and a later one was created.
C1_Witness ==
    \E p \in Procs :
        /\ InstDone(p) /\ co[p].result = "created"
        /\ co[p].errors = << <<"Query">> >>
        /\ co[p].cards_created = 1

\* C2: the step in which POST /boards fails ends the call with an error and
\* changes neither the backend's cards and blocks nor the template files.
BoardCreationFails(p) ==
    /\ co[p].pc = "board"
    /\ co'[p] # co[p]
    /\ boards' = boards

C2_BoardFailureIsFatal ==
    [][\A p \in Procs :
          BoardCreationFails(p)
          => /\ co'[p].pc = "done"
             /\ co'[p].result = "board_error"
             /\ co'[p].cards_created = 0
             /\ co'[p].template = co[p].template
             /\ cards' = cards /\ blocks' = blocks /\ store' = store]_vars

\* A returned call that has done nothing after the failure stays so: it
\* holds no board and no instance record.
C2_Witness ==
    \E p \in Procs :
        /\ InstDone(p) /\ co[p].result = "board_error"
        /\ co[p].board_id = 0
        /\ co[p].template.instances.active = <<>>
        /\ \A k \in DOMAIN store : store[k].doc.instances.active = <<>>

\* The ids of the proposals on a list, and of those a returned
\* board_to_template run appended to its document.
IdsOf(proposals) == { proposals[k].id : k \in DOMAIN proposals }

NewIdsOf(l) ==
    LET pp == l.template.feedback.pending_proposals
    IN  { pp[k].id : k \in (Len(pp) - Cardinality(l.extra_in_board) + 1)..Len(pp) }

Proposed(p) == SyncDone(p) /\ co[p].result = "proposed"

PersistedIds(st, template_id) ==
    IdsOf(_load_template(st, template_id).feedback.pending_proposals)

\* q writes the template while p, which returned with its proposals saved,
\* saved them after q had loaded its copy.
Overtakes(p, q) ==
    /\ p # q
    /\ Proposed(p)
    /\ co[q].op = "sync" /\ co[q].pc = "get_cards"
    /\ co[q].params.template_id = co[p].params.template_id
    /\ NewIdsOf(co[p]) \subseteq PersistedIds(store, co[p].params.template_id)
    /\ ~(NewIdsOf(co[p]) \subseteq IdsOf(co[q].template.feedback.pending_proposals))
    /\ co'[q].result = "proposed"
    /\ store' # store

\* C3: when two board_to_template runs on one template overlap like this,
\* both return their success report and the template on disk then holds the
\* proposals of the later writer and none of the earlier writer's.
C3_LostUpdate ==
    [][\A p, q \in Procs :
          Overtakes(p, q)
          => /\ co'[p] = co[p]
             /\ NewIdsOf(co'[q]) \subseteq PersistedIds(store', co[q].params.template_id)
             /\ NewIdsOf(co[p]) \cap PersistedIds(store', co[q].params.template_id) = {}]_vars

\* Both runs returned success, nothing failed, the template sits in the
\* directory named by its id, and one run's proposals are not on disk.
C3_Witness ==
    \E p, q \in Procs :
        /\ p # q /\ Proposed(p) /\ Proposed(q)
        /\ failures = 0
        /\ Len(store) = 1 /\ store[1].dir = "t"
        /\ NewIdsOf(co[q]) \subseteq PersistedIds(store, "t")
        /\ NewIdsOf(co[p]) # {}
        /\ NewIdsOf(co[p]) \cap PersistedIds(store, "t") = {}

\* A template_to_board run that is applied and whose every card request
\* succeeded, with a non-empty missing set.
TasksMissing(l) ==
    { k \in DOMAIN TasksOf(l.template) :
        TasksOf(l.template)[k].task.title \in l.missing_from_board }

SyncedAll(p) ==
    /\ SyncDone(p) /\ co[p].result = "synced"
    /\ co[p].params.direction = "template_to_board"
    /\ co[p].created = Cardinality(TasksMissing(co[p]))

\* q, a second applied template_to_board run on the board and template of
\* the returned run p, gets its card list.
SecondRunReads(p, q) ==
    /\ p # q
    /\ SyncedAll(p)
    /\ co[q].op = "sync" /\ co[q].pc = "get_cards"
    /\ co[q].params.direction = "template_to_board"
    /\ ~co[q].params.dry_run
    /\ co[q].params.board_id = co[p].params.board_id
    /\ co[q].params.template_id = co[p].params.template_id
    /\ co'[q] # co[q]
    /\ co'[q].result # "error"

\* C4 (as claimed): the second run creates the missing cards again.
C4_SecondRunDuplicates ==
    [][\A p, q \in Procs :
          SecondRunReads(p, q) => co'[q].pc = "create"]_vars

\* C4 (amended): the second of two runs in succession finds nothing
\* missing and creates no card.
C4_SecondRunCreatesNothing ==
    [][\A p, q \in Procs :
          SecondRunReads(p, q)
          => /\ co'[q].pc = "done"
             /\ co'[q].result = "report"
             /\ co'[q].missing_from_board = {}
             /\ co'[q].created = 0
             /\ cards' = cards]_vars

\* Both runs have returned: the first created cards, the second none.
C4_Witness ==
    \E p, q \in Procs :
        /\ p # q /\ SyncedAll(p) /\ co[p].created > 0
        /\ SyncDone(q) /\ co[q].result = "report"
        /\ co[q].params = co[p].params
        /\ co[p].missing_from_board \subseteq co[q].board_titles
        /\ co[q].created = 0

\* The board cards whose title is no template task title, as a run that
\* has read the board sees them.
ExtraCards(l) ==
    { k \in DOMAIN CardsOf(l.params.board_id) :
        CardsOf(l.params.board_id)[k].title \notin template_titles(l.template) }

PersistedPending(st, template_id) ==
    _load_template(st, template_id).feedback.pending_proposals

\* An applied board_to_template run reports its proposals created, and
\* nothing failed in the step.
ProposalsSaved(p) ==
    /\ co[p].op = "sync" /\ co[p].pc = "get_cards"
    /\ co'[p].pc = "done" /\ co'[p].result = "proposed"
    /\ failures' = failures

\* C5 (as claimed): each applied board_to_template run leaves the template
\* loaded under its id with one more pending proposal per extra card, so
\* that n runs leave n proposals per extra card.
C5_OneProposalPerExtraCard ==
    [][\A p \in Procs :
          ProposalsSaved(p)
          => LET tid == co[p].params.template_id
                 old == PersistedPending(store, tid)
                 new == PersistedPending(store', tid)
             IN  /\ Len(new) = Len(old) + Cardinality(ExtraCards(co[p]))
                 /\ \A k \in DOMAIN old : new[k] = old[k]
                 /\ \A k \in (Len(old) + 1)..Len(new) :
                       /\ new[k].type = "add_task"
                       /\ new[k].status = "pending"
                       /\ new[k].votes = [approve |-> <<>>, reject |-> <<>>]
                       /\ new[k].change.title \in co'[p].extra_in_board]_vars

\* A step of a dry run of sync: its start or one of its answers.
DryRunStep(p) ==
    /\ co'[p] # co[p]
    /\ co'[p].op = "sync"
    /\ co'[p].params.dry_run

\* C6: no step of a dry run, in either direction, changes the cards of any
\* board, the blocks, the boards or the template files.
C6_DryRunMutatesNothing ==
    [][\A p \in Procs :
          DryRunStep(p)
          => /\ cards' = cards
             /\ blocks' = blocks
             /\ boards' = boards
             /\ store' = store]_vars

DryReport(p, direction) ==
    /\ SyncDone(p) /\ co[p].result = "report"
    /\ co[p].params.dry_run
    /\ co[p].params.direction = direction

\* Dry runs returned in both directions with something to do.
C6_Witness ==
    \E p, q \in Procs :
        /\ DryReport(p, "template_to_board") /\ co[p].missing_from_board # {}
        /\ DryReport(q, "board_to_template") /\ co[q].extra_in_board # {}

\* A sync run that has computed its difference.
Diffed(p) ==
    /\ co[p].op = "sync"
    /\ \/ co[p].pc = "create"
       \/ co[p].pc = "done" /\ co[p].result \in {"report", "synced", "proposed", "exception"}

\* C7: missing and extra are disjoint; when extra is empty, missing
\* together with the titles on the board is the set of template titles;
\* missing is the template titles absent from the board and extra the
\* board titles absent from the template.
C7_DiffLaws ==
    \A p \in Procs :
        Diffed(p)
        => LET tt      == template_titles(co[p].template)
               bt      == co[p].board_titles
               missing == co[p].missing_from_board
               extra   == co[p].extra_in_board
           IN  /\ missing \cap extra = {}
               /\ extra = {} => missing \cup bt = tt
               /\ missing = { t \in tt : t \notin bt }
               /\ extra = { b \in bt : b \notin tt }

\* The difference of a board that holds one template title and lacks
\* another.
C7_Witness ==
    \E p \in Procs :
        /\ Diffed(p)
        /\ co[p].extra_in_board = {}
        /\ co[p].missing_from_board # {}
        /\ co[p].board_titles # {}

\* The substitution map the caller is promised: the caller's variables,
\* then each default whose name the caller did not supply.
CallerKeys(params) == { params.variables[k].key : k \in DOMAIN params.variables }

ExpectedVariables(params) ==
    LET defaults == << [key |-> "PROJECT_NAME", value |-> params.project_name],
                       [key |-> "CURRENT_DATE", value |-> Today] >>
    IN  params.variables \o
        SelectSeq(defaults, LAMBDA d : d.key \notin CallerKeys(params))

\* The last step of an instantiate call: the view request is answered and
\* the tool returns.
InstReturns(p) ==
    /\ co[p].op = "instantiate" /\ co[p].pc = "view"
    /\ co'[p].pc = "done"

\* C8: when the call returns and no request has failed, the new board holds
\* one card per template task, in template order, each titled with the
\* task's title after substitution of the caller's variables over the
\* defaults, and the error list is empty.
C8_OneCardPerTask ==
    [][\A p \in Procs :
          (InstReturns(p) /\ failures' = 0)
          => LET tasks == TasksOf(co[p].template)
                 cs    == SelectSeq(cards', LAMBDA c : c.boardId = co[p].board_id)
             IN  /\ Len(cs) = Len(tasks)
                 /\ \A k \in DOMAIN tasks :
                       cs[k].title = _substitute_variables(tasks[k].task.title,
                                        ExpectedVariables(co[p].params))
                 /\ co'[p].errors = <<>>
                 /\ co'[p].cards_created = Len(tasks)]_vars

\* The two-phase template instantiated with PROJECT_NAME supplied by the
\* caller: the second card carries the caller's value.
C8_Witness ==
    \E p \in Procs :
        /\ InstDone(p) /\ co[p].result = "created"
        /\ failures = 0
        /\ co[p].params.variables # <<>>
        /\ Len(TasksOf(co[p].template)) = 2
        /\ co[p].cards_created = 2
        /\ \E k \in DOMAIN cards :
              cards[k].boardId = co[p].board_id /\ cards[k].title = <<"Zeta", " plan">>

\* The child blocks of a card, and what the task asked for.
ChildIds(bs, card_id) ==
    { bs[k].id : k \in { j \in DOMAIN bs : bs[j].parentId = card_id } }

WantedBlocks(task) == Len(task.checklist) + Len(task.content_blocks)

\* C9 (as claimed): a run that returns its report with an empty error list
\* has created every block batch of every card and put the blocks in the
\* card's content order, and its template document is on disk.
C9_EveryFailureReported ==
    [][\A p \in Procs :
          (InstReturns(p) /\ co'[p].result = "created" /\ co'[p].errors = <<>>)
          => LET tasks == TasksOf(co[p].template)
                 cs    == SelectSeq(cards', LAMBDA c : c.boardId = co[p].board_id)
             IN  /\ Len(cs) = Len(tasks)
                 /\ \A k \in DOMAIN tasks :
                       /\ Cardinality(ChildIds(blocks', cs[k].id)) = WantedBlocks(tasks[k].task)
                       /\ Range(cs[k].contentOrder) = ChildIds(blocks', cs[k].id)
                 /\ \E k \in DOMAIN store' : store'[k].doc = co'[p].template]_vars

\* The template file was writable during the returning step: the only
\* failure it may count is the view request's.
FileWritable(p) ==
    failures' = failures + (IF co'[p].view_created THEN 0 ELSE 1)

\* C10 (as claimed): the template loaded under the id after the call has
\* the instances it had before, followed by one record of the new board.
C10_InstanceRecorded ==
    [][\A p \in Procs :
          (InstReturns(p) /\ FileWritable(p))
          => LET tid == co[p].params.template_id
                 old == _load_template(store, tid).instances.active
                 new == _load_template(store', tid).instances.active
             IN  new = Append(old,
                         [board_id         |-> co[p].board_id,
                          project_name     |-> co[p].params.project_name,
                          template_version |-> co[p].template.meta.version,
                          current_version  |-> co[p].template.meta.version,
                          upgrade_status   |-> "current"])]_vars

\* The instance records of the template loaded under an id.
PersistedInstances(st, template_id) ==
    Range(_load_template(st, template_id).instances.active)

\* C11 (as claimed): an instance record of the persisted template stays in
\* it through every step of every interleaving of the calls.
C11_InstancesNeverRemoved ==
    [][\A tid \in TemplateIds :
          _load_template(store, tid) # NoTemplate
          => /\ _load_template(store', tid) # NoTemplate
             /\ PersistedInstances(store, tid) \subseteq PersistedInstances(store', tid)]_vars

\* The file at a path, in a store that has one there.
DocAt(st, category, dir) == st[FileAt(st, category, dir)].doc

\* C12: no step changes the phases of a template file, nor the phases of
\* the template loaded under an id; a file that appears has the phases of
\* a file that was there.
C12_PhasesImmutable ==
    [][/\ \A tid \in TemplateIds :
            (_load_template(store, tid) # NoTemplate /\ _load_template(store', tid) # NoTemplate)
            => _load_template(store', tid).phases = _load_template(store, tid).phases
       /\ \A k \in DOMAIN store' :
            IF FileAt(store, store'[k].category, store'[k].dir) # 0
            THEN store'[k].doc.phases =
                    DocAt(store, store'[k].category, store'[k].dir).phases
            ELSE \E j \in DOMAIN store : store'[k].doc.phases = store[j].doc.phases]_vars

\* A template file that an instantiate and a board_to_template sync have
\* both written, with its authored phases.
C12_Witness ==
    \E k \in DOMAIN store :
        /\ store[k].doc.instances.active # <<>>
        /\ store[k].doc.feedback.pending_proposals # <<>>
        /\ store[k].doc.phases \in { TplQuery.phases, TplFull.phases }

\* A step that is a whole call of one of the tracking tools by p.
SetReturns(p) == co'[p] # co[p] /\ co'[p].op = "set_tracking"
GetReturns(p) == co'[p] # co[p] /\ co'[p].op = "get_tracking"

\* The triple a caller passed to setTracking.
TripleOf(params) ==
    [template_id      |-> params.template_id,
     template_version |-> params.template_version,
     upgrade_status   |-> params.upgrade_status]

SetDone(p) == co[p].op = "set_tracking" /\ co[p].result = "tracking_set"

\* C13: a successful setTracking leaves exactly its triple on the board,
\* and a getTracking after a returned successful setTracking on the board,
\* with no write to the board since (the setTracking was the only call so
\* far, or the board still holds its triple), returns exactly that triple.
C13_SetThenGet ==
    [][\A p \in Procs :
          /\ (SetReturns(p) /\ co'[p].result = "tracking_set")
             => boards'[co'[p].params.board_id].properties = TripleOf(co'[p].params)
          /\ (GetReturns(p) /\ co'[p].result # "error")
             => \A q \in Procs \ {p} :
                   ( /\ SetDone(q)
                     /\ co[q].params.board_id = co'[p].params.board_id
                     /\ \/ calls = 1
                        \/ TrackingOf(co[q].params.board_id) = TripleOf(co[q].params) )
                   => /\ co'[p].result = "tracked"
                      /\ co'[p].tracking = TripleOf(co[q].params)]_vars

\* setTracking with an older version returned, then getTracking returned
\* its triple and noticed the upgrade.
C13_Witness ==
    \E p, q \in Procs :
        /\ p # q /\ SetDone(q)
        /\ co[q].params.template_version = "0.9.0"
        /\ co[p].op = "get_tracking" /\ co[p].result = "tracked"
        /\ co[p].params.board_id = co[q].params.board_id
        /\ co[p].tracking = TripleOf(co[q].params)
        /\ co[p].upgrade

C15_GetTrackingReadsOnly ==
    [][\A p \in Procs :
          GetReturns(p)
          => /\ boards' = boards
             /\ store' = store
             /\ cards' = cards
             /\ blocks' = blocks]_vars

\* getTracking noticed an upgrade and the board still holds the status
\* that was set.
C15_Witness ==
    \E p \in Procs :
        /\ co[p].op = "get_tracking" /\ co[p].result = "tracked"
        /\ co[p].upgrade
        /\ TrackingOf(co[p].params.board_id).upgrade_status = "current"
        /\ TrackingOf(co[p].params.board_id).template_version = "0.9.0"

\* A file that holds a template document, and the paths of those files in
\* the order of the scan.
IsTemplate(doc) == doc # InvalidJson /\ doc \notin Misshaped

PathsOf(files) == [k \in DOMAIN files |-> <<files[k].category, files[k].dir>>]

ValidPaths(st) == PathsOf(SelectSeq(st, LAMBDA e : IsTemplate(e.doc)))

ListDone(p) == co[p].op = "list_templates" /\ co[p].pc = "done"

\* discover returned one summary per template file, in order, each with
\* the id and version of its file, and none for any other file.
ListsValid(p) ==
    /\ co[p].result = "listed"
    /\ PathsOf([i \in DOMAIN co[p].templates |->
                  [category |-> co[p].templates[i].path[1],
                   dir      |-> co[p].templates[i].path[2]]]) = ValidPaths(store)
    /\ \A i \in DOMAIN co[p].templates :
          LET doc == DocAt(store, co[p].templates[i].path[1], co[p].templates[i].path[2])
          IN  /\ co[p].templates[i].id = doc.meta.id
              /\ co[p].templates[i].version = doc.meta.version

\* C16: over a root whose files are template documents and files of
\* invalid JSON, discover lists every template and no invalid file.
C16_InvalidJsonSkipped ==
    \A p \in Procs :
        (ListDone(p) /\ \A k \in DOMAIN store :
                           IsTemplate(store[k].doc) \/ store[k].doc = InvalidJson)
        => ListsValid(p)

\* An invalid file scanned before two templates, both listed.
C16_Witness ==
    \E p \in Procs :
        /\ ListDone(p) /\ co[p].result = "listed"
        /\ Len(store) = 3
        /\ store[1].doc = InvalidJson
        /\ IsTemplate(store[2].doc) /\ IsTemplate(store[3].doc)
        /\ Len(co[p].templates) = 2

\* C17 (as claimed): with one file that is no template, whatever it holds,
\* discover lists the templates.
C17_DiscoveryNeverFails ==
    \A p \in Procs :
        (ListDone(p) /\ Cardinality({ k \in DOMAIN store : ~IsTemplate(store[k].doc) }) <= 1)
        => ListsValid(p)

\* One pass over the text: a token whose name is a key becomes the value
\* of that key, everything else is copied.
ValueOf(variables, key) ==
    variables[CHOOSE i \in DOMAIN variables : variables[i].key = key].value

RECURSIVE Simultaneous(_, _)
Simultaneous(text, variables) ==
    IF text = <<>> THEN <<>>
    ELSE IF /\ Len(text) >= 4
            /\ SubSeq(text, 1, 4) = Token(text[3])
            /\ HasKey(variables, text[3])
         THEN ValueOf(variables, text[3]) \o
              Simultaneous(SubSeq(text, 5, Len(text)), variables)
         ELSE <<Head(text)>> \o Simultaneous(Tail(text), variables)

\* C20 (as claimed): the result is the text with every token of a key
\* replaced by the key's value, the tokens of other names and all other
\* text as they were.
C20_SubstituteReplacesTokens ==
    \A p \in Procs :
        (co[p].op = "substitute" /\ co[p].pc = "done")
        => co[p].text = Simultaneous(co[p].params.text, co[p].params.variables)

\* A step in which p's call of instantiate or sync starts.
CallStarts(p) ==
    /\ ~Running(p)
    /\ co'[p] # co[p]
    /\ co'[p].op \in {"instantiate", "sync"}

\* C18: a call of instantiate or sync whose template id matches no
\* discovered template returns not found in the step it starts in, having
\* awaited no request and changed neither the backend nor the files.
C18_UnknownTemplateNoEffect ==
    [][\A p \in Procs :
          (CallStarts(p) /\ FirstWithId(store, co'[p].params.template_id) = 0)
          => /\ co'[p].pc = "done"
             /\ co'[p].result = "not_found"
             /\ store' = store
             /\ boards' = boards
             /\ cards' = cards
             /\ blocks' = blocks
             /\ nextId' = nextId
             /\ failures' = failures]_vars

\* Both tools have returned not found.
C18_Witness ==
    \E p, q \in Procs :
        /\ InstDone(p) /\ co[p].result = "not_found"
        /\ SyncDone(q) /\ co[q].result = "not_found"
        /\ co[p].params.template_id = "unknown-template"
        /\ blocks = <<>> /\ DOMAIN boards = {1}

\* A step in which p's instantiate or sync writes the template file.
Saves(p) ==
    /\ co'[p] # co[p]
    /\ co'[p].op \in {"instantiate", "sync"}
    /\ co'[p].pc = "done"
    /\ store' # store

\* C19 (as claimed): after the save, the template loaded under the id is
\* the document saved, and discover lists one template with that id.
C19_SaveWritesLoadedFile ==
    [][\A p \in Procs :
          Saves(p)
          => LET tid == co'[p].params.template_id
             IN  /\ _load_template(store', tid) = co'[p].template
                 /\ Cardinality({ i \in DOMAIN _discover_templates(store') :
                                    _discover_templates(store')[i].id = tid }) = 1]_vars

\* C21 (as claimed): the result is the same for either order of the map's
\* entries, and a token that comes only from a substituted value is still
\* in the result: the result is the one-pass replacement of the input's
\* tokens.
C21_NoNestedResolution ==
    \A p \in Procs :
        (co[p].op = "substitute" /\ co[p].pc = "done")
        => LET variables == co[p].params.variables
               reversed  == [k \in DOMAIN variables |-> variables[Len(variables) + 1 - k]]
           IN  /\ co[p].text = _substitute_variables(co[p].params.text, reversed)
               /\ Simultaneous(co[p].params.text, variables) = co[p].text

\* C22 (as claimed): whatever backend call or file operation fails, a call
\* that has ended has returned a report or an error message; none has ended
\* with an exception that escaped the tool function.
C22_NoUnhandledFault ==
    \A p \in Procs : co[p].pc = "done" => co[p].result # "exception"

\* The views of a board, and whether a schema has a Status property.
ViewsOf(board_id) ==
    SelectSeq(blocks, LAMBDA b : b.type = "view" /\ b.boardId = board_id)

HasStatus(cardProperties) ==
    \E k \in DOMAIN cardProperties : cardProperties[k].name = "Status"

\* A returned instantiate that had its board created.
Instantiated(p) == InstDone(p) /\ co[p].board_id \in BoardIds

\* C23 (as claimed): the new board has its one table view, with the Status
\* property visible, when the template's schema has a Status property and
\* the view request succeeded, and has no view when the schema has none.
C23_ViewOnlyWithStatus ==
    \A p \in Procs :
        Instantiated(p)
        => LET schema == co[p].template.board.cardProperties
               views  == ViewsOf(co[p].board_id)
           IN  IF HasStatus(schema)
               THEN co[p].view_created
                    => /\ Len(views) = 1
                       /\ views[1].visiblePropertyIds = << property_map(schema, "Status") >>
               ELSE views = <<>>

\* C23 (amended): the view is requested for every template.  When the
\* request succeeds the new board has exactly one view, whose visible
\* properties are the Status property's id if the template's schema has
\* one and none otherwise; when it fails the board has no view.
C23_ViewForEverySchema ==
    \A p \in Procs :
        Instantiated(p)
        => LET schema == co[p].template.board.cardProperties
               views  == ViewsOf(co[p].board_id)
           IN  IF co[p].view_created
               THEN /\ Len(views) = 1
                    /\ views[1].parentId = co[p].board_id
                    /\ views[1].visiblePropertyIds =
                          (IF HasStatus(schema) /\ property_map(schema, "Status") # ""
                           THEN << property_map(schema, "Status") >> ELSE <<>>)
               ELSE views = <<>>

C23_Witness ==
    \E p \in Procs :
        /\ Instantiated(p) /\ co[p].view_created
        /\ ~HasStatus(co[p].template.board.cardProperties)
        /\ Len(ViewsOf(co[p].board_id)) = 1
        /\ ViewsOf(co[p].board_id)[1].visiblePropertyIds = <<>>

\* The (property id, option id) pairs of the schema for the property called
\* name and its option valued label, and the ids of the properties called
\* name.
Matching(cardProperties, name, label) ==
    UNION { { <<cardProperties[k].id, cardProperties[k].options[n].id>> :
                n \in { m \in DOMAIN cardProperties[k].options :
                          cardProperties[k].options[m].value = label } } :
            k \in { j \in DOMAIN cardProperties : cardProperties[j].name = name } }

PropIds(cardProperties, name) ==
    { cardProperties[k].id :
        k \in { j \in DOMAIN cardProperties : cardProperties[j].name = name } }

\* The card request of an instantiate is answered without an error.
CardAnswered(p) ==
    /\ co[p].op = "instantiate" /\ co[p].pc = "card"
    /\ co'[p] # co[p]
    /\ failures' = failures
    /\ co[p].board_id \in BoardIds

\* The label looked up under the property called name for the task at hand.
LabelOf(l, name) ==
    IF name = "Status" THEN StatusLabel(TasksOf(l.template)[l.i].task.status)
    ELSE PhaseLabel(TasksOf(l.template)[l.i].phase)

\* C24: the card of a task is created whether or not its status and its
\* "Phase N" label are options of the schema, and no error is recorded; a
\* label that is an option puts that option's id under the property's id, a
\* label that is none (or a property that is absent) leaves the card without
\* a value for that property.
C24_UnmatchedOptionLeftUnset ==
    [][\A p \in Procs :
          CardAnswered(p)
          => LET schema == co[p].template.board.cardProperties
                 card   == cards'[Len(cards')]
             IN  /\ Len(cards') = Len(cards) + 1
                 /\ card.boardId = co[p].board_id
                 /\ card.title = task_title(co[p], co[p].i)
                 /\ co'[p].errors = co[p].errors
                 /\ co'[p].cards_created = co[p].cards_created + 1
                 /\ \A name \in {"Status", "Phase"} :
                       LET pairs == Matching(schema, name, LabelOf(co[p], name))
                       IN  IF pairs = {}
                           THEN \A pair \in card.properties :
                                   pair[1] \notin PropIds(schema, name)
                           ELSE /\ pairs \subseteq card.properties
                                /\ \A pair \in card.properties :
                                      pair[1] \in PropIds(schema, name) => pair \in pairs]_vars

\* A returned instantiate without errors whose board has a card with the
\* Status and Phase options of its task and a card, of the task with no
\* such options, without properties.
C24_Witness ==
    \E p \in Procs :
        /\ Instantiated(p) /\ co[p].errors = <<>>
        /\ HasStatus(co[p].template.board.cardProperties)
        /\ \E j, k \in DOMAIN cards :
              /\ cards[j].boardId = co[p].board_id
              /\ cards[k].boardId = co[p].board_id
              /\ cards[j].properties = { <<"prop-status", "opt-ns">>, <<"prop-phase", "opt-p1">> }
              /\ cards[k].properties = {}

\* The ids of the blocks of a card, in the order of their creation: the
\* checklist batch before the content batch, each in template order.
ChildOrder(bs, card_id) ==
    LET children == SelectSeq(bs, LAMBDA b : b.parentId = card_id)
    IN  [k \in DOMAIN children |-> children[k].id]

\* C25 (as claimed): when instantiate returns, whatever the block and
\* content-order requests answered, the content order of every card of the
\* new board is the list of the ids of the card's blocks that exist,
\* checklist items first, then content blocks.
C25_ContentOrderListsChildren ==
    [][\A p \in Procs :
          (InstReturns(p) /\ co[p].board_id \in BoardIds)
          => \A k \in DOMAIN cards' :
                cards'[k].boardId = co[p].board_id
                => cards'[k].contentOrder = ChildOrder(blocks', cards'[k].id)]_vars

\* C26 (as claimed): every property id and option id written on a card is
\* an id of the schema of the card's board as the backend stores it, also
\* when the backend gave the schema ids of its own.
C26_CardIdsFromBoardSchema ==
    \A k \in DOMAIN cards :
        \A pair \in cards[k].properties :
            LET schema == boards[cards[k].boardId].cardProperties
            IN  \E j \in DOMAIN schema :
                   /\ schema[j].id = pair[1]
                   /\ \E n \in DOMAIN schema[j].options : schema[j].options[n].id = pair[2]

\* The values the description of upgrade_status lists.
UpgradeStatuses == { "current", "available", "skipped" }

\* C27 (as claimed): the upgrade status stored on a board is one of
\* current, available and skipped (or none, on a board never tracked), and a
\* setTracking call with another value returns an error and leaves the
\* boards as they were.
C27_UpgradeStatusValidated ==
    [][/\ \A b \in DOMAIN boards' :
             boards'[b].properties.upgrade_status \in UpgradeStatuses \cup {""}
       /\ \A p \in Procs :
             (SetReturns(p) /\ co'[p].params.upgrade_status \notin UpgradeStatuses)
             => (co'[p].result = "error" /\ boards' = boards)]_vars

\* p diffs the board that the returned instantiate q made with all its
\* cards, against q's template, as the call that follows q.
DiffsNewBoard(p, q) ==
    /\ Diffed(p)
    /\ InstDone(q) /\ co[q].result = "created" /\ co[q].errors = <<>>
    /\ co[q].cards_created = Len(TasksOf(co[q].template))
    /\ co[p].call = co[q].call + 1
    /\ co[p].params.board_id = co[q].board_id
    /\ co[p].params.template_id = co[q].params.template_id
    /\ co[p].template.phases = co[q].template.phases

\* C28 (as claimed): the diff of a board just instantiated with all its
\* cards against the unchanged template has nothing missing and nothing
\* extra, also for templates whose task titles hold variables.
C28_NewBoardInSync ==
    \A p, q \in Procs :
        DiffsNewBoard(p, q)
        => co[p].missing_from_board = {} /\ co[p].extra_in_board = {}

\* C29 (as claimed): when an instantiate returns, the proposals that a
\* completed applied board_to_template run had persisted in the same
\* template are still in the persisted template, however the two calls
\* were interleaved (every template file lying in the directory named by
\* its id).
C29_ProposalsSurviveInstantiate ==
    [][\A p, q \in Procs :
          LET template_id == co[p].params.template_id
          IN  (/\ InstReturns(p)
               /\ \A k \in DOMAIN store : store[k].dir = store[k].doc.meta.id
               /\ SyncDone(q) /\ co[q].result = "proposed"
               /\ co[q].params.template_id = template_id)
              => Range(PersistedPending(store, template_id))
                    \subseteq Range(PersistedPending(store', template_id))]_vars

\* No two cards of a board have the same title.
DistinctCards(cs, board_id) ==
    \A j, k \in DOMAIN cs :
        (j # k /\ cs[j].boardId = board_id /\ cs[k].boardId = board_id)
        => cs[j].title # cs[k].title

\* C30 (as claimed): with distinct task titles in the template and only
\* sync calls made, however interleaved, a step of a sync run on a board
\* whose card titles are distinct leaves them distinct.
C30_SyncKeepsTitlesDistinct ==
    [][\A p \in Procs :
          (/\ \A q \in Procs : co[q].op \in {"none", "sync"}
           /\ calls = Cardinality({ q \in Procs : co[q].op = "sync" })
           /\ co[p].op = "sync" /\ Running(p) /\ co'[p] # co[p]
           /\ Cardinality(template_titles(co[p].template)) = Len(TasksOf(co[p].template))
           /\ DistinctCards(cards, co[p].params.board_id))
          => DistinctCards(cards', co[p].params.board_id)]_vars

====
